---- MODULE Spec2Model ----
(***************************************************************************)
(* Model of the genomics crate: the Sample registry (loci, variations,     *)
(* groups, individuals), the lazily rebuilt AlleleMatrix, observe(), the    *)
(* Csv producer and index_of_association().                                 *)
(*                                                                          *)
(* sample is the Sample, applied the bag of the observations it has taken,  *)
(* last the last call and its outcome, reader the rows of the delimited     *)
(* file a Csv is opened on.                                                 *)
(*                                                                          *)
(* Strings are sequences of character codes, ordered lexicographically as   *)
(* Rust orders String.  A BTreeMap is the sequence of its entries in key    *)
(* order, a HashMap a function, a HashSet a set.  A panic and a loop that   *)
(* does not end are results ("panic", "hang") after which the program       *)
(* takes no further step.                                                   *)
(***************************************************************************)
EXTENDS Integers, Sequences, FiniteSets, Bags, TLC

VARIABLES sample, applied, last, reader

vars == <<sample, applied, last, reader>>

(* ------------------------------ bounds --------------------------------- *)
\* observations applied to the sample over a whole run
MaxObs == 3
\* Allele observations applied to a sample that receives nothing else
MaxAlleleObs == 4
\* items of a sequence handed to observe()
MaxSeqLen == 3
\* observations applied to a sample that every operation is called on
MaxAllObs == 2
\* individuals and variations per locus of the genotype tables the
\* statistic is computed on
MaxStatInds == 3
MaxStatVars == 3
\* data rows of a delimited table
MaxCsvRows == 2

(* ------------------------------ names ---------------------------------- *)
IndNames == {<<1>>, <<2>>}
LocusNames == {<<1>>, <<1, 2>>}
VarNames == {<<1>>, <<2>>}
GroupNames == {<<7>>}
MetaKeys == {<<5>>}
MetaVals == {<<8>>, <<9>>}

\* Ord for String: lexicographic, a proper prefix is smaller
StrLess(a, b) ==
    \E k \in 0..Len(a) :
        /\ k <= Len(b)
        /\ \A i \in 1..k : a[i] = b[i]
        /\ \/ k = Len(a) /\ k < Len(b)
           \/ k < Len(a) /\ k < Len(b) /\ a[k + 1] < b[k + 1]

(* ----------------------------- BTreeMap -------------------------------- *)
BTreeNew == << >>

BTreeKeys(m) == [i \in 1..Len(m) |-> m[i].key]

BTreeHas(m, k) == \E i \in 1..Len(m) : m[i].key = k

BTreeGet(m, k) == m[CHOOSE i \in 1..Len(m) : m[i].key = k].val

\* or_insert as a push to the end of a list
BTreeOrInsertAppend(m, k, v) ==
    IF BTreeHas(m, k) THEN m ELSE Append(m, [key |-> k, val |-> v])

\* insert(k, v): the value of an existing entry is replaced
BTreeInsertReplace(m, k, v) ==
    IF BTreeHas(m, k)
    THEN [i \in 1..Len(m) |-> IF m[i].key = k THEN [key |-> k, val |-> v] ELSE m[i]]
    ELSE LET p == Cardinality({i \in 1..Len(m) : StrLess(m[i].key, k)})
         IN  SubSeq(m, 1, p) \o <<[key |-> k, val |-> v]>> \o SubSeq(m, p + 1, Len(m))

\* entry(k).or_insert(v): an existing entry is kept, a new one goes to its
\* place in key order
BTreeOrInsert(m, k, v) ==
    IF BTreeHas(m, k) THEN m
    ELSE LET p == Cardinality({i \in 1..Len(m) : StrLess(m[i].key, k)})
         IN  SubSeq(m, 1, p) \o <<[key |-> k, val |-> v]>> \o SubSeq(m, p + 1, Len(m))

\* assignment through the reference that entry()/get() returned
BTreePut(m, k, v) ==
    [i \in 1..Len(m) |-> IF m[i].key = k THEN [key |-> k, val |-> v] ELSE m[i]]

(* --------------------------- entity types ------------------------------ *)
VariationNew(name) == [name |-> name]

LocusNew(name) == [name |-> name, variations |-> BTreeNew, hint |-> "Microsatellite"]

GroupNew(name) == [name |-> name]

\* genome: (locus name, variation name) -> count, the keys compare by name
IndividualNew(name) == [name |-> name, genome |-> << >>, groups |-> {}, meta |-> << >>]

AlleleMatrixNew == [data |-> [dim |-> <<0, 0>>, v |-> << >>], loci |-> << >>, dirty |-> FALSE]

SampleNew == [loci |-> BTreeNew, groups |-> {}, individuals |-> BTreeNew, matrix |-> AlleleMatrixNew]

\* LociExt::n_alleles
RECURSIVE n_alleles(_)
n_alleles(loci) ==
    IF loci = << >> THEN 0
    ELSE Len(Head(loci).val.variations) + n_alleles(Tail(loci))

(* ------------------------------ Sample --------------------------------- *)
\* Sample::allele: both or_insert arguments are evaluated before the lookup,
\* so the flag is set on every call
allele(self, locus, variation) ==
    LET d1 == [self EXCEPT !.matrix.dirty = TRUE]
        l1 == BTreeOrInsert(d1.loci, locus, LocusNew(locus))
        loc == BTreeGet(l1, locus)
        vs == BTreeOrInsert(loc.variations, variation, VariationNew(variation))
        l2 == BTreePut(l1, locus, [loc EXCEPT !.variations = vs])
    IN  [self |-> [d1 EXCEPT !.loci = l2, !.matrix.dirty = TRUE],
         ret |-> <<locus, variation>>]

\* Sample::group
group(self, name) ==
    [self |-> [self EXCEPT !.matrix.dirty = TRUE, !.groups = @ \cup {name}],
     ret |-> name]

\* entry(key).or_insert(1) += 1
GenomeIncrFromOne(genome, key) ==
    IF key \in DOMAIN genome
    THEN [genome EXCEPT ![key] = @ + 1]
    ELSE (key :> 2) @@ genome

\* *genome.entry(key).or_insert(0) += 1; the u32 counts stay far below 2^32
\* under the bounds on the observations
GenomeIncr(genome, key) ==
    IF key \in DOMAIN genome
    THEN [genome EXCEPT ![key] = @ + 1]
    ELSE (key :> 1) @@ genome

\* meta.entry(key).or_insert(content): the first write stays
MetaInsertKeepFirst(meta, key, content) ==
    IF key \in DOMAIN meta THEN meta ELSE (key :> content) @@ meta

\* meta.insert(key, content)
MetaInsert(meta, key, content) ==
    IF key \in DOMAIN meta
    THEN [meta EXCEPT ![key] = content]
    ELSE (key :> content) @@ meta

\* Sample::_observe
_observe(self, o) ==
    IF o.tag = "Allele" THEN
        LET a == allele(self, o.locus, o.variation)
            inds == BTreeOrInsert(a.self.individuals, o.individual, IndividualNew(o.individual))
            ind == BTreeGet(inds, o.individual)
        IN  [a.self EXCEPT !.individuals =
                BTreePut(inds, o.individual, [ind EXCEPT !.genome = GenomeIncr(@, a.ret)])]
    ELSE IF o.tag = "Group" THEN
        LET g == group(self, o.group)
            inds == BTreeOrInsert(g.self.individuals, o.individual, IndividualNew(o.individual))
            ind == BTreeGet(inds, o.individual)
        IN  [g.self EXCEPT !.individuals =
                BTreePut(inds, o.individual, [ind EXCEPT !.groups = @ \cup {g.ret}])]
    ELSE
        LET inds == BTreeOrInsert(self.individuals, o.individual, IndividualNew(o.individual))
            ind == BTreeGet(inds, o.individual)
            m == MetaInsert(ind.meta, o.key, o.content)
        IN  [self EXCEPT !.individuals = BTreePut(inds, o.individual, [ind EXCEPT !.meta = m])]

\* observe that goes on after an Err item and reports it at the end
RECURSIVE observeSkipErr(_, _, _)
observeSkipErr(self, observable, done) ==
    IF observable = << >> THEN [self |-> self, result |-> "ok", done |-> done]
    ELSE IF Head(observable).tag = "Err"
        THEN [observeSkipErr(self, Tail(observable), done) EXCEPT !.result = "err"]
    ELSE observeSkipErr(_observe(self, Head(observable)), Tail(observable),
                        Append(done, Head(observable)))

\* Sample::observe: the for loop with `?`; done is the sequence of the
\* observations handed to _observe so far
RECURSIVE observe(_, _, _)
observe(self, observable, done) ==
    IF observable = << >> THEN [self |-> self, result |-> "ok", done |-> done]
    ELSE IF Head(observable).tag = "Err" THEN [self |-> self, result |-> "err", done |-> done]
    ELSE observe(_observe(self, Head(observable)), Tail(observable), Append(done, Head(observable)))

\* Sample::loci_names
loci_names(self) == BTreeKeys(self.loci)

\* Option
None == [some |-> FALSE]

Some(x) == [some |-> TRUE, val |-> x]

\* Sample::variations
variations(self, locus) ==
    IF BTreeHas(self.loci, locus)
    THEN Some(BTreeKeys(BTreeGet(self.loci, locus).variations))
    ELSE None

(* --------------------------- AlleleMatrix ------------------------------ *)
\* the (locus, variation) keys in the order of the nested loops over
\* sample.loci and locus.variations
RECURSIVE Columns(_)
Columns(loci) ==
    IF loci = << >> THEN << >>
    ELSE LET locus == Head(loci).val
         IN  [j \in 1..Len(locus.variations) |-> <<locus.name, locus.variations[j].val.name>>]
             \o Columns(Tail(loci))

\* presence instead of the count
GenomeGetPresence(genome, key) == IF key \in DOMAIN genome THEN 1 ELSE 0

\* individual.genome.get(&key), None as 0
GenomeGet(genome, key) == IF key \in DOMAIN genome THEN genome[key] ELSE 0

\* impl From<&Sample> for Vec<AlleleCount>
RECURSIVE VecFromRows(_, _)
VecFromRows(inds, cols) ==
    IF inds = << >> THEN << >>
    ELSE [c \in 1..Len(cols) |-> GenomeGet(Head(inds).val.genome, cols[c])]
         \o VecFromRows(Tail(inds), cols)

VecFromSample(self) == VecFromRows(self.individuals, Columns(self.loci))

SatSub1(d) == IF d = 0 THEN 0 ELSE d - 1

\* ndarray::Array::from_shape_vec with explicit strides: the largest offset
\* must lie inside the vector and no two indices may share an element
FromShapeVec(dim, strides, v) ==
    LET size == dim[1] * dim[2]
        maxOff == SatSub1(dim[1]) * strides[1] + SatSub1(dim[2]) * strides[2]
        oob == IF size = 0 THEN maxOff > Len(v) ELSE maxOff >= Len(v)
        lo == IF strides[1] <= strides[2] THEN 1 ELSE 2
        hi == 3 - lo
        overlap == /\ size # 0
                   /\ \/ dim[lo] > 1 /\ strides[lo] <= 0
                      \/ dim[hi] > 1 /\ strides[hi] <= (IF dim[lo] > 1 THEN (dim[lo] - 1) * strides[lo] ELSE 0)
    IN  IF oob \/ overlap THEN [result |-> "err"]
        ELSE [result |-> "ok", val |-> [dim |-> dim, v |-> v]]

\* AlleleMatrix::from_vec: data.len() / individuals panics on a zero divisor
from_vec(individuals, loci, data) ==
    IF individuals = 0 THEN [result |-> "panic"]
    ELSE LET alleles == Len(data) \div individuals
             arr == FromShapeVec(<<individuals, alleles>>, <<alleles, 1>>, data)
         IN  IF arr.result = "err" THEN [result |-> "err"]
             ELSE [result |-> "ok", val |-> [data |-> arr.val, loci |-> loci, dirty |-> FALSE]]

\* the range vector built at the top of Sample::flush
FlushRanges(loci) ==
    [k \in 1..Len(loci) |-> <<k - 1, (k - 1) + Len(loci[k].val.variations)>>]

\* flush that extends the range table of the matrix it replaces
flushExtend(self) ==
    LET loci == self.matrix.loci \o FlushRanges(self.loci)
        m == from_vec(Len(self.individuals), loci, VecFromSample(self))
    IN  IF m.result = "ok"
        THEN [self |-> [self EXCEPT !.matrix = m.val], result |-> "ok"]
        ELSE [self |-> self, result |-> m.result]

\* Sample::flush
flush(self) ==
    LET loci == FlushRanges(self.loci)
        m == from_vec(Len(self.individuals), loci, VecFromSample(self))
    IN  IF m.result = "ok"
        THEN [self |-> [self EXCEPT !.matrix = m.val], result |-> "ok"]
        ELSE [self |-> self, result |-> m.result]

\* element [r, c] (zero-based) of a row-major array
At(arr, r, c) == arr.v[r * arr.dim[2] + c + 1]

(* ------------------------- f32 arithmetic ------------------------------ *)
\* a float is "NaN", "Inf", "-Inf" or an exact fraction <<n, d>> with d > 0;
\* rounding is left out
FNum(n) == <<n, 1>>

FAdd(x, y) == IF x = "NaN" \/ y = "NaN" THEN "NaN" ELSE <<x[1] * y[2] + y[1] * x[2], x[2] * y[2]>>

FSub(x, y) == IF x = "NaN" \/ y = "NaN" THEN "NaN" ELSE <<x[1] * y[2] - y[1] * x[2], x[2] * y[2]>>

FMul(x, y) == IF x = "NaN" \/ y = "NaN" THEN "NaN" ELSE <<x[1] * y[1], x[2] * y[2]>>

FAbs(x) == IF x = "NaN" THEN "NaN" ELSE <<IF x[1] < 0 THEN -x[1] ELSE x[1], x[2]>>

\* x / y: 0/0 is NaN, a nonzero value over 0 is an infinity
FDiv(x, y) ==
    IF x = "NaN" \/ y = "NaN" THEN "NaN"
    ELSE IF y[1] = 0 THEN (IF x[1] = 0 THEN "NaN" ELSE IF x[1] > 0 THEN "Inf" ELSE "-Inf")
    ELSE IF y[1] > 0 THEN <<x[1] * y[2], x[2] * y[1]>>
    ELSE <<-(x[1] * y[2]), x[2] * (-y[1])>>

\* x - 1.0 on the result of the last division
FPred(x) == IF x \in {"NaN", "Inf", "-Inf"} THEN x ELSE FSub(x, FNum(1))

RECURSIVE FSum(_)
FSum(xs) == IF xs = << >> THEN FNum(0) ELSE FAdd(Head(xs), FSum(Tail(xs)))

RECURSIVE NatSum(_)
NatSum(xs) == IF xs = << >> THEN 0 ELSE Head(xs) + NatSum(Tail(xs))

RECURSIVE Flatten(_)
Flatten(xss) == IF xss = << >> THEN << >> ELSE Head(xss) \o Flatten(Tail(xss))

(* --------------------- AlleleMatrix::frequency ------------------------- *)
\* the range table frequency() normalises over
FreqLoci == <<(<<0, 3>>), (<<3, 6>>)>>

\* row.slice(s![start..end]) as a sequence
RowSlice(arr, r, start, end) == [k \in 1..(end - start) |-> At(arr, r, start + k - 1)]

FreqRow(arr, r) ==
    Flatten([l \in 1..Len(FreqLoci) |->
        LET sl == RowSlice(arr, r, FreqLoci[l][1], FreqLoci[l][2])
            loci_sum == NatSum(sl)
        IN  [k \in 1..Len(sl) |-> FDiv(FNum(sl[k]), FNum(loci_sum))]])

\* a slice past the end of a row panics, and so does assigning the
\* concatenated slices to a row of another length
frequency(m) ==
    LET rows == m.data.dim[1]
        cols == m.data.dim[2]
        width == NatSum([l \in 1..Len(FreqLoci) |-> FreqLoci[l][2] - FreqLoci[l][1]])
    IN  IF rows = 0 THEN [result |-> "ok", val |-> [dim |-> m.data.dim, v |-> << >>]]
        ELSE IF \E l \in 1..Len(FreqLoci) : FreqLoci[l][2] > cols THEN [result |-> "panic"]
        ELSE IF width # cols THEN [result |-> "panic"]
        ELSE [result |-> "ok",
              val |-> [dim |-> m.data.dim,
                       v |-> Flatten([r \in 1..rows |-> FreqRow(m.data, r - 1)])]]

(* ---------------------- index_of_association --------------------------- *)
\* the pairs the first double loop visits: for i in 0..n-1, for j in i..n
\* (Rust ranges, the end excluded)
VisitedPairs(n) == {p \in (0..(n - 2)) \X (0..(n - 1)) : p[1] <= p[2]}

\* indices: each visited pair gets the value of counter at its visit
Indices(n) ==
    [p \in VisitedPairs(n) |->
        Cardinality({q \in VisitedPairs(n) : q[1] < p[1] \/ (q[1] = p[1] /\ q[2] < p[2])})]

\* the pairs the distance loop writes for: i in 0..n-1, j in i+1..n (Rust
\* ranges)
DistancePairs(n) == {p \in (0..(n - 2)) \X (0..(n - 1)) : p[1] < p[2]}

\* the distance loop panics on a row index outside the n_distances rows and
\* on a column range outside the frequency row
DistancePanics(freqs, ranges, n_freqs, n_distances) ==
    /\ ranges # << >>
    /\ DistancePairs(n_freqs) # {}
    /\ \/ \E p \in DistancePairs(n_freqs) : Indices(n_freqs)[p] >= n_distances
       \/ \E l \in 1..Len(ranges) : ranges[l][2] > freqs.dim[2] \/ ranges[l][1] > ranges[l][2]

\* distances[[indices[(i, j)], idx]]: the L1 distance of rows i and j over
\* the columns start..end; a row no pair writes stays zero
Distances(freqs, ranges, n_freqs, n_distances) ==
    [row \in 1..n_distances |->
        [l \in 1..Len(ranges) |->
            IF \E p \in DistancePairs(n_freqs) : Indices(n_freqs)[p] = row - 1
            THEN LET p == CHOOSE q \in DistancePairs(n_freqs) : Indices(n_freqs)[q] = row - 1
                 IN  FSum([k \in 1..(ranges[l][2] - ranges[l][1]) |->
                        FAbs(FSub(At(freqs, p[1], ranges[l][1] + k - 1),
                                  At(freqs, p[2], ranges[l][1] + k - 1)))])
            ELSE FNum(0)]]

\* variance / expected_variance - 1.0
Statistic(distances, n_distances, n_loci) ==
    LET totals == [p \in 1..n_distances |-> FSum(distances[p])]
        variance ==
            FDiv(FSub(FSum([p \in 1..n_distances |-> FMul(totals[p], totals[p])]),
                      FDiv(FMul(FSum(totals), FSum(totals)), FNum(n_distances))),
                 FNum(n_distances))
        expected_variance ==
            FSum([n \in 1..n_loci |->
                LET column == [p \in 1..n_distances |-> distances[p][n]]
                IN  FDiv(FSub(FSum([p \in 1..n_distances |-> FMul(column[p], column[p])]),
                              FDiv(FSum(column), FNum(n_distances))),
                         FNum(n_distances))])
    IN  FPred(FDiv(variance, expected_variance))

\* IndexOfAssociation::index_of_association: the set of the outcomes the
\* builds of the crate can produce.  With no row, n_freqs - 1 overflows:
\* a build with overflow checks panics, one without them loops over
\* 0..usize::MAX, which either does not end or is optimised away.
index_of_association(self) ==
    LET f == IF self.matrix.dirty THEN flush(self) ELSE [self |-> self, result |-> "ok"]
        s1 == f.self
        fr == frequency(s1.matrix)
        n_freqs == s1.matrix.data.dim[1]
        n_distances == (n_freqs * (n_freqs - 1)) \div 2
        n_loci == Len(s1.matrix.loci)
        out(result, value, read) == [self |-> s1, result |-> result, value |-> value, read |-> read]
    IN  IF f.result # "ok" THEN {out(f.result, None, None)}
        ELSE IF fr.result # "ok" THEN {out("panic", None, Some(s1.matrix))}
        ELSE IF n_freqs = 0 THEN
            {out("panic", None, Some(s1.matrix)), out("hang", None, Some(s1.matrix)),
             out("ok", Some(Statistic(<< >>, 0, n_loci)), Some(s1.matrix))}
        ELSE IF DistancePanics(fr.val, s1.matrix.loci, n_freqs, n_distances)
            THEN {out("panic", None, Some(s1.matrix))}
        ELSE {out("ok",
                  Some(Statistic(Distances(fr.val, s1.matrix.loci, n_freqs, n_distances),
                                 n_distances, n_loci)),
                  Some(s1.matrix))}

(* --------------------------- observations ------------------------------ *)
Alleles ==
    [tag : {"Allele"}, individual : IndNames, locus : LocusNames, variation : VarNames]

GroupObs == [tag : {"Group"}, individual : IndNames, group : GroupNames]

MetaObs == [tag : {"Meta"}, individual : IndNames, key : MetaKeys, content : MetaVals]

Observations == Alleles \cup GroupObs \cup MetaObs

\* an Err(e) item of the sequence handed to observe()
ErrItem == [tag |-> "Err"]

\* the items the sequences handed to observe() are made of
Items ==
    {[tag |-> "Allele", individual |-> <<1>>, locus |-> <<1>>, variation |-> <<1>>],
     [tag |-> "Allele", individual |-> <<2>>, locus |-> <<1>>, variation |-> <<2>>],
     [tag |-> "Group", individual |-> <<1>>, group |-> <<7>>],
     [tag |-> "Meta", individual |-> <<1>>, key |-> <<5>>, content |-> <<8>>],
     [tag |-> "Meta", individual |-> <<1>>, key |-> <<5>>, content |-> <<9>>],
     ErrItem}

Observables == UNION {[1..n -> Items] : n \in 0..MaxSeqLen}

RECURSIVE SeqToBag(_)
SeqToBag(xs) == IF xs = << >> THEN EmptyBag ELSE SetToBag({Head(xs)}) (+) SeqToBag(Tail(xs))

(* ------------------------------- Csv ----------------------------------- *)
\* a character is a natural: the digit d is d, the others are their codes
Slash == 47

Yes == 89

\* usize::to_string
RECURSIVE to_string(_)
to_string(n) == IF n < 10 THEN <<n>> ELSE to_string(n \div 10) \o <<n % 10>>

RECURSIVE SplitFrom(_, _, _)
SplitFrom(field, separator, token) ==
    IF field = << >> THEN <<token>>
    ELSE IF Len(field) >= Len(separator) /\ SubSeq(field, 1, Len(separator)) = separator
         THEN <<token>> \o SplitFrom(SubSeq(field, Len(separator) + 1, Len(field)), separator, << >>)
         ELSE SplitFrom(Tail(field), separator, Append(token, Head(field)))

SplitWhole(field, separator) == <<field>>

\* field.split(&self.separator), the separator not empty
Split(field, separator) == SplitFrom(field, separator, << >>)

\* CsvBuilder::new
CsvBuilderNew ==
    [headers |-> TRUE, separator |-> <<Slash>>, name_field |-> None, group_fields |-> {},
     group_field |-> None, meta_fields |-> {}, group_presence_identifier |-> <<Yes>>]

\* the Field of the header s
FieldOf(self, s) ==
    IF self.name_field.some /\ s = self.name_field.val THEN [tag |-> "Name"]
    ELSE IF s \in self.group_fields THEN [tag |-> "GroupPresence", name |-> s]
    ELSE IF self.group_field.some /\ self.group_field.val = s THEN [tag |-> "Group"]
    ELSE IF s \in self.meta_fields THEN [tag |-> "Meta", name |-> s]
    ELSE [tag |-> "Locus", name |-> s]

\* the records the reader delivers for the rows: a row whose number of
\* fields differs from that of the first row of the table is an error
Records(table, rows) ==
    [k \in 1..Len(rows) |->
        IF Len(rows[k]) = Len(table[1]) THEN [ok |-> TRUE, row |-> rows[k]] ELSE [ok |-> FALSE]]

\* Csv::new
CsvNew(records, fields, separator, group_presence_identifier) ==
    [records |-> records, idx |-> 0, fields |-> fields, separator |-> separator,
     observation_buffer |-> << >>, group_presence_identifier |-> group_presence_identifier]

\* CsvBuilder::from_reader on a reader that holds the table
from_reader(self, table) ==
    LET headers == IF table = << >> THEN << >> ELSE Head(table)
        rows == IF self.headers /\ table # << >> THEN Tail(table) ELSE table
        fields == IF self.headers
                  THEN Some([i \in 1..Len(headers) |-> FieldOf(self, headers[i])])
                  ELSE None
    IN  CsvNew(Records(table, rows), fields, self.separator, self.group_presence_identifier)

\* the partials of a row, in the order of its columns
RowPartials(self, row) ==
    Flatten([i \in 1..Len(row) |->
        IF self.fields.some
        THEN LET f == self.fields.val[i]
             IN  CASE f.tag = "Name" -> << >>
                   [] f.tag = "Locus" ->
                        LET xs == Split(row[i], self.separator)
                        IN  [k \in 1..Len(xs) |->
                                [tag |-> "Allele", locus |-> f.name, variation |-> xs[k]]]
                   [] f.tag = "Group" -> <<[tag |-> "Group", group |-> row[i]]>>
                   [] f.tag = "GroupPresence" ->
                        IF row[i] = self.group_presence_identifier
                        THEN <<[tag |-> "Group", group |-> f.name]>>
                        ELSE << >>
                   [] f.tag = "Meta" -> <<[tag |-> "Meta", key |-> f.name, content |-> row[i]]>>
        ELSE LET xs == Split(row[i], self.separator)
             IN  [k \in 1..Len(xs) |->
                     [tag |-> "Allele", locus |-> to_string(i - 1), variation |-> xs[k]]]])

\* the individual of a row: the field of the last Name column, else the
\* index of the record
RowIndividual(self, row, idx) ==
    LET names == IF self.fields.some
                 THEN {i \in 1..Len(row) : self.fields.val[i].tag = "Name"}
                 ELSE {}
    IN  IF names = {} THEN to_string(idx)
        ELSE row[CHOOSE i \in names : \A j \in names : j <= i]

\* ObservationPartial::to_observation
to_observation(self, individual) ==
    CASE self.tag = "Allele" ->
            [tag |-> "Allele", individual |-> individual, locus |-> self.locus,
             variation |-> self.variation]
      [] self.tag = "Group" -> [tag |-> "Group", individual |-> individual, group |-> self.group]
      [] self.tag = "Meta" ->
            [tag |-> "Meta", individual |-> individual, key |-> self.key,
             content |-> self.content]

\* Csv::next: ret is the Option returned, result is "panic" when
\* pop_front() finds the buffer empty
CsvNext(self) ==
    LET pop(c) ==
            IF c.observation_buffer = << >> THEN [self |-> c, result |-> "panic", ret |-> None]
            ELSE [self |-> [c EXCEPT !.observation_buffer = Tail(c.observation_buffer)],
                  result |-> "ok", ret |-> Some(Head(c.observation_buffer))]
    IN  IF Len(self.observation_buffer) = 0
        THEN IF self.records = << >> THEN [self |-> self, result |-> "ok", ret |-> None]
             ELSE LET rec == Head(self.records)
                      rest == [self EXCEPT !.records = Tail(self.records), !.idx = self.idx + 1]
                  IN  IF rec.ok
                      THEN LET individual == RowIndividual(self, rec.row, self.idx)
                               partials == RowPartials(self, rec.row)
                           IN  pop([rest EXCEPT !.observation_buffer =
                                       [k \in 1..Len(partials) |->
                                           to_observation(partials[k], individual)]])
                      ELSE [self |-> rest, result |-> "ok", ret |-> None]
        ELSE pop(self)

\* the items a for loop takes from the Csv, and how the loop ends: "none"
\* on end-of-stream, "panic" when next() aborts
RECURSIVE CsvCollect(_, _)
CsvCollect(self, items) ==
    LET n == CsvNext(self)
    IN  IF n.result = "panic" THEN [items |-> items, end |-> "panic"]
        ELSE IF ~n.ret.some THEN [items |-> items, end |-> "none"]
        ELSE CsvCollect(n.self, Append(items, n.ret.val))

\* the builders, the header rows and the fields of the tables read
CsvBuilders ==
    {CsvBuilderNew,
     [CsvBuilderNew EXCEPT !.name_field = Some(<<5>>)],
     [CsvBuilderNew EXCEPT !.group_fields = {<<7>>}],
     [CsvBuilderNew EXCEPT !.group_field = Some(<<7>>)],
     [CsvBuilderNew EXCEPT !.meta_fields = {<<5>>}],
     [CsvBuilderNew EXCEPT !.headers = FALSE]}

CsvHeaders ==
    {<<(<<1>>)>>, <<(<<1, 2>>), (<<1>>)>>, <<(<<5>>), (<<1>>)>>, <<(<<1>>), (<<5>>)>>,
     <<(<<7>>), (<<1>>)>>, <<(<<5>>)>>, <<(<<7>>)>>}

CsvCells == {<< >>, <<1, Slash, 2>>, <<Yes>>}

CsvRows == UNION {[1..Len(h) -> CsvCells] : h \in CsvHeaders}

(* ------------------------------ actions -------------------------------- *)
\* what the last call was and how it ended: input and done are the sequence
\* handed to observe() and the observations it applied, again says that a
\* flush() followed a flush() that returned, stale is the flag
\* index_of_association() found, read the matrix it handed to frequency(),
\* csv the builder of the Csv handed to observe()
Last(op, result) ==
    [op |-> op, result |-> result, input |-> << >>, done |-> << >>,
     again |-> FALSE, stale |-> FALSE, read |-> None, value |-> None, csv |-> None]

Halted == last.result \in {"panic", "hang"}

Init ==
    /\ sample = SampleNew
    /\ applied = EmptyBag
    /\ last = Last("new", "ok")
    /\ reader = << >>

\* sample._observe(o)
ObserveOne(o) ==
    /\ ~Halted
    /\ sample' = _observe(sample, o)
    /\ applied' = applied (+) SetToBag({o})
    /\ last' = Last("_observe", "ok")
    /\ UNCHANGED reader

\* sample.observe(observable)
Observe(observable) ==
    /\ ~Halted
    /\ LET r == observe(sample, observable, << >>)
       IN  /\ sample' = r.self
           /\ applied' = applied (+) SeqToBag(r.done)
           /\ last' = [Last("observe", r.result) EXCEPT !.input = observable, !.done = r.done]
    /\ UNCHANGED reader

\* sample.allele(locus, variation)
AlleleCall(locus, variation) ==
    /\ ~Halted
    /\ sample' = allele(sample, locus, variation).self
    /\ last' = Last("allele", "ok")
    /\ UNCHANGED <<applied, reader>>

\* sample.group(name)
GroupCall(name) ==
    /\ ~Halted
    /\ sample' = group(sample, name).self
    /\ last' = Last("group", "ok")
    /\ UNCHANGED <<applied, reader>>

\* sample.flush()
Flush ==
    /\ ~Halted
    /\ LET r == flush(sample)
       IN  /\ sample' = r.self
           /\ last' = [Last("flush", r.result) EXCEPT !.again = (last.op = "flush")]
    /\ UNCHANGED <<applied, reader>>

\* sample.index_of_association()
IndexOfAssociation ==
    /\ ~Halted
    /\ \E r \in index_of_association(sample) :
        /\ sample' = r.self
        /\ last' = [Last("index_of_association", r.result) EXCEPT
                        !.stale = sample.matrix.dirty, !.read = r.read, !.value = r.value]
    /\ UNCHANGED <<applied, reader>>

\* sample.matrix.frequency()
Frequency ==
    /\ ~Halted
    /\ LET r == frequency(sample.matrix)
       IN  last' = [Last("frequency", r.result) EXCEPT
                       !.read = Some(sample.matrix),
                       !.value = IF r.result = "ok" THEN Some(r.val) ELSE None]
    /\ UNCHANGED <<sample, applied, reader>>

\* a row is written to the file the reader is opened on
WriteRow(row) ==
    /\ reader' = Append(reader, row)
    /\ UNCHANGED <<sample, applied, last>>

\* sample.observe(builder.from_reader(reader)?)
ObserveCsv(builder) ==
    /\ ~Halted
    /\ LET c == CsvCollect(from_reader(builder, reader), << >>)
           r == observe(sample, c.items, << >>)
       IN  /\ sample' = r.self
           /\ applied' = applied (+) SeqToBag(r.done)
           /\ last' = [Last("observe_csv", IF c.end = "panic" THEN "panic" ELSE r.result)
                          EXCEPT !.csv = Some(builder), !.done = r.done]
    /\ UNCHANGED reader

Next ==
    \/ \E o \in Observations : BagCardinality(applied) < MaxObs /\ ObserveOne(o)
    \/ \E locus \in LocusNames, variation \in VarNames : AlleleCall(locus, variation)
    \/ \E name \in GroupNames : GroupCall(name)
    \/ Flush
    \/ IndexOfAssociation

Spec == Init /\ [][Next]_vars

\* a sample built from Allele observations, and flushed
NextAlleles ==
    \/ \E o \in Alleles : BagCardinality(applied) < MaxAlleleObs /\ ObserveOne(o)
    \/ Flush

SpecAlleles == Init /\ [][NextAlleles]_vars

\* the registry under observations of every kind and direct calls
NextRegistry ==
    \/ \E o \in Observations : BagCardinality(applied) < MaxObs /\ ObserveOne(o)
    \/ \E locus \in LocusNames, variation \in VarNames : AlleleCall(locus, variation)
    \/ \E name \in GroupNames : GroupCall(name)

SpecRegistry == Init /\ [][NextRegistry]_vars

\* observe() on sequences of results
NextObserve ==
    \E observable \in Observables :
        BagCardinality(applied) + Len(observable) <= MaxObs /\ Observe(observable)

SpecObserve == Init /\ [][NextObserve]_vars

\* a delimited table is written and read into a new sample
NextCsv ==
    \/ \E header \in CsvHeaders : last.op = "new" /\ reader = << >> /\ WriteRow(header)
    \/ \E row \in CsvRows :
           last.op = "new" /\ reader # << >> /\ Len(reader) <= MaxCsvRows /\ WriteRow(row)
    \/ \E builder \in CsvBuilders : last.op = "new" /\ ObserveCsv(builder)

SpecCsv == Init /\ [][NextCsv]_vars

\* every operation of the sample
NextAll ==
    \/ \E o \in Items \ {ErrItem} : BagCardinality(applied) < MaxAllObs /\ ObserveOne(o)
    \/ \E observable \in Observables :
           BagCardinality(applied) + Len(observable) <= MaxAllObs /\ Observe(observable)
    \/ \E locus \in LocusNames : AlleleCall(locus, <<1>>)
    \/ \E name \in GroupNames : GroupCall(name)
    \/ Flush
    \/ IndexOfAssociation

SpecAll == Init /\ [][NextAll]_vars

(* ------------------- what the observations add up to ------------------- *)
\* the elements of S in ascending order of Less
SortedSeq(S, Less(_, _)) ==
    [i \in 1..Cardinality(S) |-> CHOOSE x \in S : Cardinality({y \in S : Less(y, x)}) = i - 1]

\* (locus, variation) pairs by locus name, then by variation name
PairLess(p, q) == StrLess(p[1], q[1]) \/ (p[1] = q[1] /\ StrLess(p[2], q[2]))

AppliedAlleles == {o \in BagToSet(applied) : o.tag = "Allele"}

ObservedInds == {o.individual : o \in BagToSet(applied)}

ObservedPairs == {<<o.locus, o.variation>> : o \in AppliedAlleles}

ObservedLoci == {o.locus : o \in AppliedAlleles}

ObservedVars(locus) == {o.variation : o \in {x \in AppliedAlleles : x.locus = locus}}

\* the number of Allele(individual, locus, variation) observations applied
Count(individual, locus, variation) ==
    CopiesIn([tag |-> "Allele", individual |-> individual, locus |-> locus,
              variation |-> variation], applied)

\* the number of Allele observations applied for (individual, locus)
LocusCount(individual, locus) ==
    LET vs == SortedSeq(VarNames, StrLess)
    IN  NatSum([k \in 1..Len(vs) |-> Count(individual, locus, vs[k])])

\* the matrix has a row per individual, a column per (locus, variation) and
\* the genome counts of the registry
MatrixCurrent(s) ==
    LET cols == Columns(s.loci)
    IN  /\ s.matrix.data.dim = <<Len(s.individuals), n_alleles(s.loci)>>
        /\ Len(s.matrix.data.v) = Len(s.individuals) * Len(cols)
        /\ \A r \in 1..Len(s.individuals), c \in 1..Len(cols) :
               At(s.matrix.data, r - 1, c - 1) = GenomeGet(s.individuals[r].val.genome, cols[c])

\* a step added a locus, a variation or an individual, or changed a genome
RegistryChanged(s, t) ==
    \/ Columns(s.loci) # Columns(t.loci)
    \/ BTreeKeys(s.individuals) # BTreeKeys(t.individuals)
    \/ \E r \in 1..Len(s.individuals) : s.individuals[r].val.genome # t.individuals[r].val.genome

(* ------------------------------ claims --------------------------------- *)
\* C1: every step that adds a locus, a variation or an individual, or that
\* changes a genome count, leaves matrix.dirty set, and whenever the flag is
\* clear the matrix has one row per individual, one column per (locus,
\* variation) and holds the current genome counts.
C1_CleanMatrixIsCurrent ==
    [][/\ RegistryChanged(sample, sample') => sample'.matrix.dirty
       /\ ~sample'.matrix.dirty => MatrixCurrent(sample')]_vars

\* C2: after a flush() that succeeds on a sample built from Allele
\* observations, the rows are the observed individuals in name order, the
\* columns the observed (locus, variation) pairs by locus and then variation
\* name, and each entry is the number of matching Allele observations.
C2_MatrixAfterFlush ==
    (last.op = "flush" /\ last.result = "ok") =>
        LET rows == SortedSeq(ObservedInds, StrLess)
            cols == SortedSeq(ObservedPairs, PairLess)
            data == sample.matrix.data
        IN  /\ data.dim = <<Len(rows), Len(cols)>>
            /\ Len(data.v) = Len(rows) * Len(cols)
            /\ \A r \in 1..Len(rows), c \in 1..Len(cols) :
                   At(data, r - 1, c - 1) = Count(rows[r], cols[c][1], cols[c][2])

\* Allele(ind1, L1, a) and Allele(ind2, L1, b) flushed to [[1, 0], [0, 1]]
C2_ScenarioA ==
    /\ last.op = "flush" /\ last.result = "ok"
    /\ applied = SetToBag({[tag |-> "Allele", individual |-> <<1>>, locus |-> <<1>>, variation |-> <<1>>],
                           [tag |-> "Allele", individual |-> <<2>>, locus |-> <<1>>, variation |-> <<2>>]})
    /\ sample.matrix.data = [dim |-> <<2, 2>>, v |-> <<1, 0, 0, 1>>]

\* C3: after flush(), for every individual and every locus, the entries of
\* the individual's row over the column range the matrix stores for the
\* locus add up to the number of Allele observations of that individual at
\* that locus.
C3_RangeSums ==
    (last.op = "flush" /\ last.result = "ok") =>
        LET rows == SortedSeq(ObservedInds, StrLess)
            locs == SortedSeq(ObservedLoci, StrLess)
            m == sample.matrix
        IN  /\ Len(m.loci) = Len(locs)
            /\ \A r \in 1..Len(rows), k \in 1..Len(locs) :
                   NatSum(RowSlice(m.data, r - 1, m.loci[k][1], m.loci[k][2]))
                       = LocusCount(rows[r], locs[k])

\* C4: loci_names() and variations(locus) are functions of the collection
\* of the Allele observations applied, whatever their order: the observed
\* names in ascending order without duplicates, and variations(locus) is
\* None for a locus never observed.
C4_CanonicalNames ==
    /\ loci_names(sample) = SortedSeq(ObservedLoci, StrLess)
    /\ \A locus \in LocusNames :
           variations(sample, locus) =
               IF locus \in ObservedLoci
               THEN Some(SortedSeq(ObservedVars(locus), StrLess))
               ELSE None

\* three or more observations over two loci, one of them with two variations
C4_TwoLociSeen ==
    /\ Cardinality(ObservedLoci) = 2
    /\ \E locus \in ObservedLoci : Cardinality(ObservedVars(locus)) = 2
    /\ BagCardinality(applied) >= 3
    /\ Len(loci_names(sample)) = 2

\* C5: index_of_association() called on a stale matrix rebuilds it before
\* frequency() reads it, the matrix read reflects the registry, and after
\* the call the flag is clear.
C5_RebuildBeforeRead ==
    (last.op = "index_of_association" /\ last.stale) =>
        /\ ~sample.matrix.dirty
        /\ last.read = Some(sample.matrix)
        /\ MatrixCurrent(sample)

\* C6: a flush() that follows a flush() with nothing in between returns Ok
\* again and leaves the same matrix: shape, entries, range table and a
\* clear flag.
C6_FlushIdempotent ==
    [][(last.op = "flush" /\ last.result = "ok" /\ last'.op = "flush") =>
          /\ last'.result = "ok"
          /\ sample'.matrix = sample.matrix
          /\ ~sample'.matrix.dirty]_vars

\* a second flush() in a row returned, on a matrix with at least two loci
C6_FlushedTwice ==
    /\ last.op = "flush" /\ last.again /\ last.result = "ok"
    /\ Len(sample.matrix.loci) >= 2
    /\ Len(sample.matrix.data.v) >= 2

\* the position of the first Err item, Len + 1 if there is none
FirstErr(xs) ==
    IF \E i \in 1..Len(xs) : xs[i].tag = "Err"
    THEN CHOOSE i \in 1..Len(xs) :
            xs[i].tag = "Err" /\ \A j \in 1..(i - 1) : xs[j].tag # "Err"
    ELSE Len(xs) + 1

\* the sample after _observe of every element of xs from the left
RECURSIVE ApplyAll(_, _)
ApplyAll(s, xs) ==
    IF xs = << >> THEN s ELSE ApplyAll(_observe(s, Head(xs)), Tail(xs))

\* C7: observe() on a sequence whose first error is at position k applies
\* the k - 1 observations before it, in order, and none after it, returns
\* the error and keeps what it applied; without an error it applies every
\* item and returns Ok.
C7_ObserveFailFast ==
    [][last'.op = "observe" =>
          LET k == FirstErr(last'.input)
              prefix == SubSeq(last'.input, 1, k - 1)
          IN  /\ last'.done = prefix
              /\ last'.result = (IF k <= Len(last'.input) THEN "err" ELSE "ok")
              /\ sample' = ApplyAll(sample, prefix)
              /\ applied' = applied (+) SeqToBag(prefix)]_vars

\* observe() stopped at an error in the middle: an observation before it was
\* applied, an observation after it was not
C7_StoppedInTheMiddle ==
    /\ last.op = "observe" /\ last.result = "err"
    /\ Len(last.input) = 3 /\ Len(last.done) = 1
    /\ last.input[3].tag # "Err"
    /\ BagCardinality(applied) >= 1

\* zero individuals with columns, or individuals with zero columns
Degenerate(s) ==
    \/ Len(s.individuals) = 0 /\ n_alleles(s.loci) > 0
    \/ Len(s.individuals) > 0 /\ n_alleles(s.loci) = 0

\* C8: flush() returns Ok or an error, it never aborts, and on a degenerate
\* registry it returns a shape error.
C8_FlushReturns ==
    last.op = "flush" =>
        /\ last.result \in {"ok", "err"}
        /\ Degenerate(sample) => last.result = "err"

\* C9: index_of_association() on a sample with fewer than 2 individuals
\* returns an error, neither an abort nor an Ok summary.
C9_FewIndividuals ==
    (last.op = "index_of_association" /\ Len(sample.individuals) < 2) =>
        last.result = "err"

\* the count the individual holds for (locus, variation), 0 without one
GenomeCount(s, individual, locus, variation) ==
    IF BTreeHas(s.individuals, individual)
    THEN GenomeGet(BTreeGet(s.individuals, individual).genome, <<locus, variation>>)
    ELSE 0

\* C10: the genome count of every (individual, locus, variation) is the
\* number of Allele observations applied for it, whatever their order and
\* whatever Group and Meta observations came in between.
C10_GenomeCounts ==
    \A individual \in IndNames, locus \in LocusNames, variation \in VarNames :
        GenomeCount(sample, individual, locus, variation) = Count(individual, locus, variation)

\* an allele observed twice for an individual that is also in a group
C10_RepeatedAllele ==
    \E individual \in IndNames, locus \in LocusNames, variation \in VarNames :
        /\ GenomeCount(sample, individual, locus, variation) = 2
        /\ BTreeGet(sample.individuals, individual).groups # {}

\* the individual of that name, as created if the registry has none
IndividualOf(s, name) ==
    IF BTreeHas(s.individuals, name) THEN BTreeGet(s.individuals, name) ELSE IndividualNew(name)

\* the groups observed for the individual
ObservedGroups(individual) ==
    {o.group : o \in {x \in BagToSet(applied) : x.tag = "Group" /\ x.individual = individual}}

\* C11: a Group or Meta observation creates its individual if there is none,
\* adds the group to the membership set (nothing changes on a repeat) or
\* sets metadata[key] to the new value (the last write wins), and leaves the
\* genome counts, the other field and the other individuals alone; the
\* membership set is always the set of the groups observed.
C11_GroupAndMeta ==
    [][\A o \in GroupObs \cup MetaObs :
          CopiesIn(o, applied') = CopiesIn(o, applied) + 1 =>
              LET before == IndividualOf(sample, o.individual)
                  after == IndividualOf(sample', o.individual)
              IN  /\ BTreeHas(sample'.individuals, o.individual)
                  /\ after.name = o.individual
                  /\ after.genome = before.genome
                  /\ IF o.tag = "Group"
                     THEN /\ after.groups = before.groups \cup {o.group}
                          /\ after.meta = before.meta
                     ELSE /\ after.groups = before.groups
                          /\ DOMAIN after.meta = DOMAIN before.meta \cup {o.key}
                          /\ \A k \in DOMAIN after.meta :
                                 after.meta[k] = IF k = o.key THEN o.content ELSE before.meta[k]
                  /\ \A other \in IndNames \ {o.individual} :
                         /\ BTreeHas(sample'.individuals, other) = BTreeHas(sample.individuals, other)
                         /\ IndividualOf(sample', other) = IndividualOf(sample, other)
                  /\ \A individual \in IndNames :
                         IndividualOf(sample', individual).groups = ObservedGroups(individual)']_vars

\* Scenario C with a second Meta observation for the same key: the individual
\* has its group, one value for the key and no genome count
C11_ScenarioC ==
    /\ applied = SetToBag({[tag |-> "Group", individual |-> <<1>>, group |-> <<7>>],
                           [tag |-> "Meta", individual |-> <<1>>, key |-> <<5>>, content |-> <<8>>],
                           [tag |-> "Meta", individual |-> <<1>>, key |-> <<5>>, content |-> <<9>>]})
    /\ BTreeKeys(sample.individuals) = <<(<<1>>)>>
    /\ IndividualOf(sample, <<1>>).groups = {<<7>>}
    /\ IndividualOf(sample, <<1>>).meta = (<<5>> :> <<9>>)
    /\ IndividualOf(sample, <<1>>).genome = << >>

SeqRange(xs) == {xs[i] : i \in 1..Len(xs)}

\* every locus, variation, group and individual of s is in t, and no genome
\* count of s is larger than in t
RegistryWithin(s, t) ==
    /\ SeqRange(BTreeKeys(s.loci)) \subseteq SeqRange(BTreeKeys(t.loci))
    /\ \A locus \in SeqRange(BTreeKeys(s.loci)) :
           SeqRange(BTreeKeys(BTreeGet(s.loci, locus).variations))
               \subseteq SeqRange(BTreeKeys(BTreeGet(t.loci, locus).variations))
    /\ s.groups \subseteq t.groups
    /\ SeqRange(BTreeKeys(s.individuals)) \subseteq SeqRange(BTreeKeys(t.individuals))
    /\ \A individual \in SeqRange(BTreeKeys(s.individuals)) :
           \A key \in DOMAIN BTreeGet(s.individuals, individual).genome :
               GenomeGet(BTreeGet(t.individuals, individual).genome, key)
                   >= BTreeGet(s.individuals, individual).genome[key]

\* C12: over every step of observe, _observe, allele, group, flush and
\* index_of_association the loci, the variations of each locus, the groups
\* and the individuals only grow and no genome count decreases; flush and
\* index_of_association leave the registry as it is.
C12_RegistryGrows ==
    [][/\ RegistryWithin(sample, sample')
       /\ last'.op \in {"flush", "index_of_association"} =>
              /\ sample'.loci = sample.loci
              /\ sample'.groups = sample.groups
              /\ sample'.individuals = sample.individuals]_vars

\* a registry with a locus, a group and two individuals that a flush has
\* rebuilt the matrix of
C12_GrownAndFlushed ==
    /\ last.op = "flush" /\ last.result = "ok"
    /\ Len(sample.loci) >= 1
    /\ Len(sample.individuals) = 2
    /\ sample.groups # {}
    /\ sample.matrix.data.dim[1] = 2

\* C17: after flush() the range table has one entry per locus in the order
\* of the names, the first range starts at 0, each starts where the
\* previous one ends, each is as wide as the locus has variations, and the
\* last ends at the number of columns.
C17_CumulativeRanges ==
    (last.op = "flush" /\ last.result = "ok") =>
        LET ranges == sample.matrix.loci
        IN  /\ Len(ranges) = Len(sample.loci)
            /\ \A k \in 1..Len(ranges) :
                   /\ ranges[k][1] = (IF k = 1 THEN 0 ELSE ranges[k - 1][2])
                   /\ ranges[k][2] - ranges[k][1] = Len(sample.loci[k].val.variations)
            /\ ranges # << >> => ranges[Len(ranges)][2] = sample.matrix.data.dim[2]

\* C19: flush() called while the staleness flag is clear changes nothing:
\* the data of the matrix, its shape and its range table are after the call
\* what they were before it.
C19_CleanFlushIsNoOp ==
    [][(last'.op = "flush" /\ ~sample.matrix.dirty) =>
          /\ sample'.matrix.data = sample.matrix.data
          /\ sample'.matrix.loci = sample.matrix.loci]_vars

\* C20: a call of allele() or group() that creates no locus, no variation
\* and no group leaves the staleness flag as it was, and no such call
\* touches the individuals or the matrix data.
C20_GetOrCreate ==
    [][last'.op \in {"allele", "group"} =>
          /\ sample'.individuals = sample.individuals
          /\ sample'.matrix.data = sample.matrix.data
          /\ (sample'.loci = sample.loci /\ sample'.groups = sample.groups) =>
                 sample'.matrix.dirty = sample.matrix.dirty]_vars

(* ------------------------------ Csv claims ----------------------------- *)
\* the header row and the data rows of the table read
Header == IF reader = << >> THEN << >> ELSE Head(reader)

DataRows == IF reader = << >> THEN << >> ELSE Tail(reader)

\* the columns the builder leaves to the loci
LocusColumns(builder) ==
    {i \in 1..Len(Header) :
        /\ ~(builder.name_field.some /\ builder.name_field.val = Header[i])
        /\ Header[i] \notin builder.group_fields
        /\ ~(builder.group_field.some /\ builder.group_field.val = Header[i])
        /\ Header[i] \notin builder.meta_fields}

\* the rows with as many fields as the header, and those of them that come
\* before the first row that has not
WellFormedRows == {k \in 1..Len(DataRows) : Len(DataRows[k]) = Len(Header)}

RowsRead == {k \in WellFormedRows : \A j \in 1..k : j \in WellFormedRows}

\* the individual of the k-th data row
RowName(builder, k) ==
    IF builder.name_field.some /\ \E i \in 1..Len(Header) : Header[i] = builder.name_field.val
    THEN DataRows[k][CHOOSE i \in 1..Len(Header) : Header[i] = builder.name_field.val]
    ELSE to_string(k - 1)

\* the runs of the cell between the separator characters
Tokens(cell, char) ==
    LET cuts == SortedSeq({0, Len(cell) + 1} \cup {i \in 1..Len(cell) : cell[i] = char},
                          LAMBDA a, b : a < b)
    IN  [k \in 1..(Len(cuts) - 1) |-> SubSeq(cell, cuts[k] + 1, cuts[k + 1] - 1)]

\* one Allele observation per token of the locus columns of the rows
TokenObs(builder, rows) ==
    Flatten([k \in 1..Len(DataRows) |->
        IF k \notin rows THEN << >>
        ELSE Flatten([i \in 1..Len(Header) |->
                IF i \notin LocusColumns(builder) THEN << >>
                ELSE LET xs == Tokens(DataRows[k][i], Slash)
                     IN  [t \in 1..Len(xs) |->
                             [tag |-> "Allele", individual |-> RowName(builder, k),
                              locus |-> Header[i], variation |-> xs[t]]]])])

\* the Allele observations applied are those of the tokens of the rows, and
\* variations() lists the distinct tokens of every locus column
TokensObserved(builder, rows) ==
    LET obs == TokenObs(builder, rows)
    IN  /\ AppliedAlleles = {obs[k] : k \in 1..Len(obs)}
        /\ \A o \in AppliedAlleles : CopiesIn(o, applied) = CopiesIn(o, SeqToBag(obs))
        /\ \A i \in LocusColumns(builder) :
               LET seen == {obs[k].variation :
                               k \in {j \in 1..Len(obs) : obs[j].locus = Header[i]}}
               IN  seen # {} => variations(sample, Header[i]) = Some(SortedSeq(seen, StrLess))

LocusHeaders(builder) == SortedSeq({Header[i] : i \in LocusColumns(builder)}, StrLess)

\* C15 as stated: after observing a Csv with headers, the Allele
\* observations are the tokens of the locus columns of every data row,
\* loci_names() is the sorted list of the locus headers and variations() the
\* sorted distinct tokens.
C15_CsvLoci ==
    (last.op = "observe_csv" /\ last.csv.val.headers) =>
        /\ TokensObserved(last.csv.val, WellFormedRows)
        /\ loci_names(sample) = LocusHeaders(last.csv.val)

\* C15: after observing a Csv with headers, the Allele observations are the
\* tokens of the locus columns of the data rows read before the first
\* malformed row, each for the individual of its row (the name field
\* wherever it stands, else the row index); variations() is the sorted list
\* of the distinct tokens of the locus, and loci_names() is the sorted list
\* of the locus headers when a row was read and empty when none was.
C15_CsvLociRead ==
    (last.op = "observe_csv" /\ last.csv.val.headers) =>
        /\ TokensObserved(last.csv.val, RowsRead)
        /\ loci_names(sample) =
               (IF RowsRead = {} THEN << >> ELSE LocusHeaders(last.csv.val))

\* two rows read with the name in the last column: three distinct tokens at
\* the locus, for two individuals
C15_NamedRows ==
    /\ last.op = "observe_csv"
    /\ last.result = "ok"
    /\ last.csv.val.name_field = Some(<<5>>)
    /\ reader = <<(<<(<<1>>), (<<5>>)>>), (<<(<<1, Slash, 2>>), (<<Yes>>)>>), (<<(<< >>), (<< >>)>>)>>
    /\ variations(sample, <<1>>) = Some(<<(<< >>), (<<1>>), (<<2>>)>>)
    /\ BTreeKeys(sample.individuals) = <<(<< >>), (<<Yes>>)>>

\* C16: when the reader reports a row as an error, observe() on the Csv
\* returns an error, not Ok, and applies no observation of a later row.
C16_MalformedRowIsError ==
    (/\ last.op = "observe_csv"
     /\ WellFormedRows # 1..Len(DataRows)
     /\ last.result # "panic") =>
        /\ last.result = "err"
        /\ last.csv.val.headers => TokensObserved(last.csv.val, RowsRead)

\* C21: Csv::next never aborts: observe() on a Csv ends without a panic
\* whatever the rows hold, a row without observation included, and the
\* Allele observations come out row by row, in column order within a row.
C21_NextNeverAborts ==
    last.op = "observe_csv" =>
        /\ last.result # "panic"
        /\ last.csv.val.headers =>
               SelectSeq(last.done, LAMBDA o : o.tag = "Allele") =
                   TokenObs(last.csv.val, RowsRead)

(* ---------------- the statistic on genotype tables --------------------- *)
StatInds == [i \in 1..MaxStatInds |-> <<i>>]

StatVars == [v \in 1..MaxStatVars |-> <<v>>]

StatLoci == SortedSeq(LocusNames, StrLess)

\* allele() for the first w variations of every locus
RegisterCalls(w) ==
    Flatten([l \in 1..Len(StatLoci) |-> [v \in 1..w |-> <<StatLoci[l], StatVars[v]>>]])

RECURSIVE RegisterAll(_, _)
RegisterAll(s, calls) ==
    IF calls = << >> THEN s
    ELSE RegisterAll(allele(s, Head(calls)[1], Head(calls)[2]).self, Tail(calls))

\* g[i][l] is the variation individual i carries at locus l, 0 for none
GenotypeObs(g) ==
    Flatten([i \in 1..Len(g) |->
        Flatten([l \in 1..Len(StatLoci) |->
            IF g[i][l] = 0 THEN << >>
            ELSE <<[tag |-> "Allele", individual |-> StatInds[i], locus |-> StatLoci[l],
                    variation |-> StatVars[g[i][l]]]>>])])

\* a sample with w variations registered at every locus that has observed
\* a genotype table
InitStat ==
    \E w \in 1..MaxStatVars :
        \E g \in [1..MaxStatInds -> [1..Len(StatLoci) -> 0..w]] :
            /\ sample = ApplyAll(RegisterAll(SampleNew, RegisterCalls(w)), GenotypeObs(g))
            /\ applied = SeqToBag(GenotypeObs(g))
            /\ last = Last(IF GenotypeObs(g) = << >> THEN "allele" ELSE "_observe", "ok")
            /\ reader = << >>

NextStat ==
    \/ Flush
    \/ Frequency
    \/ IndexOfAssociation

SpecStat == InitStat /\ [][NextStat]_vars

\* two floats are the same number, or both NaN
FSame(x, y) ==
    IF x \in {"NaN", "Inf", "-Inf"} \/ y \in {"NaN", "Inf", "-Inf"} THEN x = y
    ELSE x[1] * y[2] = y[1] * x[2]

\* C13: frequency() returns an array of the shape of the matrix in which
\* every entry is the count divided by the sum of its row over the column
\* range of its locus in the matrix's own range table, so that the
\* frequencies of a row over a range with a nonzero sum add up to 1.
C13_FrequencyNormalizes ==
    last.op = "frequency" =>
        /\ last.result = "ok"
        /\ LET m == last.read.val
               f == last.value.val
           IN  /\ f.dim = m.data.dim
               /\ \A r \in 0..(m.data.dim[1] - 1), k \in 1..Len(m.loci) :
                      LET start == m.loci[k][1]
                          end == m.loci[k][2]
                          sum == NatSum(RowSlice(m.data, r, start, end))
                      IN  /\ \A c \in start..(end - 1) :
                                 FSame(At(f, r, c), FDiv(FNum(At(m.data, r, c)), FNum(sum)))
                          /\ sum # 0 => FSame(FSum(RowSlice(f, r, start, end)), FNum(1))

\* the relative frequencies of the variations of the l-th locus in the
\* i-th individual of the registry
LocusFrequencies(s, i, l) ==
    LET names == BTreeKeys(s.loci[l].val.variations)
        counts == [v \in 1..Len(names) |->
                      GenomeCount(s, s.individuals[i].key, s.loci[l].key, names[v])]
    IN  [v \in 1..Len(names) |-> FDiv(FNum(counts[v]), FNum(NatSum(counts)))]

\* the pairs (i, j), i < j, of n individuals in the order i = 1..n-1,
\* j = i+1..n
PairSeq(n) ==
    SortedSeq({p \in (1..n) \X (1..n) : p[1] < p[2]},
              LAMBDA p, q : p[1] < q[1] \/ (p[1] = q[1] /\ p[2] < q[2]))

\* D[p, l]: the L1 distance of the pair at the locus
PairDistance(s, p, l) ==
    LET f == LocusFrequencies(s, p[1], l)
        g == LocusFrequencies(s, p[2], l)
    IN  FSum([v \in 1..Len(f) |-> FAbs(FSub(f[v], g[v]))])

\* V_O / V_E - 1 of the registry
StandardizedIndex(s) ==
    LET pairs == PairSeq(Len(s.individuals))
        P == Len(pairs)
        L == Len(s.loci)
        D == [p \in 1..P |-> [l \in 1..L |-> PairDistance(s, pairs[p], l)]]
        T == [p \in 1..P |-> FSum(D[p])]
        V_O == FDiv(FSub(FSum([p \in 1..P |-> FMul(T[p], T[p])]),
                         FDiv(FMul(FSum(T), FSum(T)), FNum(P))),
                    FNum(P))
        V_E == FSum([l \in 1..L |->
                   FDiv(FSub(FSum([p \in 1..P |-> FMul(D[p][l], D[p][l])]),
                             FDiv(FSum([p \in 1..P |-> D[p][l]]), FNum(P))),
                        FNum(P))])
        ratio == FDiv(V_O, V_E)
    IN  IF ratio \in {"NaN", "Inf", "-Inf"} THEN ratio ELSE FSub(ratio, FNum(1))

\* C14: on a sample with at least 2 individuals and at least 1 locus,
\* index_of_association() returns V_O / V_E - 1 computed from the L1
\* distances of the per-locus frequencies of every pair of individuals.
C14_StandardizedIndex ==
    (/\ last.op = "index_of_association"
     /\ Len(sample.individuals) >= 2
     /\ Len(sample.loci) >= 1) =>
        /\ last.result = "ok"
        /\ last.value.some
        /\ FSame(last.value.val, StandardizedIndex(sample))

\* the position of the pair (i, j), i < j, when i runs over 0..n-2 and j
\* over i+1..n-1
PairPosition(p, n) ==
    Cardinality({q \in (0..(n - 1)) \X (0..(n - 1)) :
                    /\ q[1] < q[2]
                    /\ q[1] < p[1] \/ (q[1] = p[1] /\ q[2] < p[2])})

\* C18: when index_of_association() has the frequencies of n >= 2
\* individuals, the index of every pair (i, j), i < j, is its position in
\* the iteration of i over 0..n-2 and j over i+1..n-1; the indices are a
\* bijection onto 0..n(n-1)/2 - 1, so every row written in the distance
\* matrix is one of its n(n-1)/2 rows.
C18_PairIndices ==
    (/\ last.op = "index_of_association"
     /\ last.read.some
     /\ frequency(last.read.val).result = "ok"
     /\ last.read.val.data.dim[1] >= 2) =>
        LET n == last.read.val.data.dim[1]
            n_distances == (n * (n - 1)) \div 2
            pairs == {p \in (0..(n - 1)) \X (0..(n - 1)) : p[1] < p[2]}
        IN  /\ \A p \in pairs : Indices(n)[p] = PairPosition(p, n)
            /\ {Indices(n)[p] : p \in pairs} = 0..(n_distances - 1)
            /\ ~DistancePanics(frequency(last.read.val).val, last.read.val.loci, n, n_distances)

====
